---- MODULE Spec2Model ----
(***************************************************************************)
(* Model of the secure password share server: the crypto unit              *)
(* (server/crypto.ts), the DatabaseStorage class (storage code carried in  *)
(* replit.md) and the request handlers (routes).                           *)
(*                                                                         *)
(* Time is counted in units of TIME_UNIT_MS.  JavaScript strings are sequences of TLA+     *)
(* strings (one element per character or per word).  Cryptographic         *)
(* primitives are symbolic terms: PBKDF2, bcrypt and AES-GCM are injective *)
(* constructors, and the random source never repeats a draw.               *)
(***************************************************************************)
EXTENDS Integers, Sequences, FiniteSets, TLC

\* masterPassword, sessions, passwordEntries, passwords: the tables
\* now: the clock; rnd: draws taken from the random source; issued: tokens
\* handed out; resp: the response of the last step; console: its console lines
\* timers: the interval timers running in the process
\* inflight: the requests being served that have statements still to run
VARIABLES masterPassword, sessions, passwordEntries, passwords, now, rnd, issued, resp, console,
          timers, inflight

vars == <<masterPassword, sessions, passwordEntries, passwords, now, rnd, issued, resp, console,
          timers, inflight>>

store == <<masterPassword, sessions, passwordEntries, passwords>>

(***************************************************************************)
(* Bounds of the model.                                                    *)
(***************************************************************************)
MaxTime == 2
MaxSessions == 2
MaxEntries == 2
MaxTimers == 2
MaxInflight == 2

(***************************************************************************)
(* Program constants.                                                      *)
(***************************************************************************)
\* the clock advances in steps of four hours
TIME_UNIT_MS == 4 * 60 * 60 * 1000
SESSION_LIFETIME == (4 * 60 * 60 * 1000) \div TIME_UNIT_MS
ENTRY_LIFETIME == (24 * 60 * 60 * 1000) \div TIME_UNIT_MS
BCRYPT_ROUNDS == 12
BCRYPT_MAX_INPUT == 72
MASTER_MIN_LEN == 8

(***************************************************************************)
(* Inputs.                                                                 *)
(***************************************************************************)
Str(n, c) == [i \in 1..n |-> c]

SecretA == Str(MASTER_MIN_LEN, "a")
SecretB == Str(MASTER_MIN_LEN, "b")
SecretShort == Str(1, "c")
EmptyString == <<>>

\* two secrets longer than the input of bcrypt that differ in the last character
LongPrefix == [i \in 1..BCRYPT_MAX_INPUT |-> "a"]
SecretLongX == LongPrefix \o <<"x">>
SecretLongY == LongPrefix \o <<"y">>

HashInputs == {SecretA, SecretB, SecretLongX, SecretLongY}

SecretInputs == {SecretA, SecretB, SecretShort, EmptyString}

BogusToken == <<"bogus">>

TokenInputs == issued \cup {BogusToken, EmptyString}

\* JavaScript values: strings, booleans, arrays and objects (key/value pairs in order)
JStr(s) == [t |-> "str", v |-> s]
JBool(b) == [t |-> "bool", v |-> b]
JArr(a) == [t |-> "arr", v |-> a]
JObj(kvs) == [t |-> "obj", v |-> kvs]
Undefined == [t |-> "undefined", v |-> <<>>]

KV(k, v) == [k |-> k, v |-> v]

PasswordField(name, value, isPassword) ==
    JObj(<<KV(<<"name">>, JStr(name)), KV(<<"value">>, JStr(value)),
           KV(<<"isPassword">>, JBool(isPassword))>>)

PasswordEntryData(title, fields) ==
    JObj(<<KV(<<"title">>, JStr(title)), KV(<<"fields">>, JArr(fields))>>)

FieldUser == PasswordField(<<"user">>, <<"a@b.com">>, FALSE)
FieldQuote == PasswordField(<<"p", "\"", "w">>, <<"x", "\\", "y">>, TRUE)

EntryMail == PasswordEntryData(<<"Mail">>, <<FieldUser>>)
EntryBank == PasswordEntryData(<<"Bank">>, <<FieldUser, FieldQuote>>)
EntryNoFields == PasswordEntryData(<<"Empty">>, <<>>)

EntryInputs == {EntryMail, EntryBank, EntryNoFields}

\* values that are not of the shape of DecryptedData
EntryBoolField == PasswordEntryData(<<"Odd">>, <<JBool(TRUE)>>)
EntryNoTitle == JObj(<<KV(<<"fields">>, JArr(<<FieldUser>>))>>)

PayloadInputs == {EntryBank, EntryNoFields, EntryBoolField, EntryNoTitle}

(***************************************************************************)
(* Random source: the k-th draw of the process.                            *)
(***************************************************************************)
randomUUID(k) == <<"uuid", ToString(k)>>

randomBytes(k) == <<"rand", ToString(k)>>

generateSalt(k) == randomBytes(k)

\* an iv that is the same on every call
generateIV_Fixed(k) == randomBytes(0)

generateIV(k) == randomBytes(k)

(***************************************************************************)
(* Error messages, one element per word.                                   *)
(***************************************************************************)
MsgInvalidMasterPassword == <<"Invalid", "master", "password", "-", "session", "creation", "denied">>
MsgInvalidSessionDenied == <<"Invalid", "session", "-", "access", "denied">>
MsgInvalidOrExpired == <<"Invalid", "or", "expired", "session">>
MsgBadSessionFormat == <<"Invalid", "encrypted", "session", "data", "format">>
MsgGcmAuth == <<"Unsupported", "state", "or", "unable", "to", "authenticate", "data">>
MsgBadStructure == <<"Invalid", "decrypted", "data", "structure">>
MsgJsonSyntax == <<"Unexpected", "token", "in", "JSON">>
MsgAlreadyExists == <<"Master", "password", "already", "exists">>
NoError == <<>>

SessionDecryptionFailed(msg) == <<"Session", "decryption", "failed:">> \o msg

DecryptionFailed(msg) == <<"Decryption", "failed:">> \o msg

\* String.prototype.includes on word sequences
Includes(msg, pat) ==
    \E i \in 0..(Len(msg) - Len(pat)) :
        \A j \in 1..Len(pat) : msg[i + j] = pat[j]

Ok(v) == [ok |-> TRUE, val |-> v, err |-> NoError]

Throw(msg) == [ok |-> FALSE, val |-> <<>>, err |-> msg]

(***************************************************************************)
(* Key derivation and AES-256-GCM.                                         *)
(***************************************************************************)
pbkdf2Sync(password, salt) == [kdf |-> "pbkdf2-sha256", password |-> password, salt |-> salt]

\* Buffer.from(text, "base64"): the bytes a base64 text spells; white space
\* inside the text is skipped
Base64Decode(text) == SelectSeq(text, LAMBDA ch : ch # " ")

deriveKey(pw, salt) == pbkdf2Sync(pw, Base64Decode(salt))

GcmCiphertext(key, iv, plaintext) == [key |-> key, iv |-> iv, plaintext |-> plaintext]

\* a tag that does not cover the iv
GcmTag_IgnoresIv(key, iv, aad, ciphertext) ==
    [key |-> key, iv |-> <<>>, aad |-> aad, ciphertext |-> ciphertext]

GcmTag(key, iv, aad, ciphertext) == [key |-> key, iv |-> iv, aad |-> aad, ciphertext |-> ciphertext]

\* createCipheriv / setAAD / update / final / getAuthTag
GcmEncrypt(key, iv, aad, plaintext) ==
    LET ct == GcmCiphertext(key, iv, plaintext)
    IN  [encrypted |-> ct, authTag |-> GcmTag(key, iv, aad, ct)]

\* a decryption that releases the plaintext without verifying the tag
GcmDecrypt_NoTagCheck(key, iv, aad, ciphertext, authTag) == Ok(ciphertext.plaintext)

\* createDecipheriv / setAAD / setAuthTag / update / final
GcmDecrypt(key, iv, aad, ciphertext, authTag) ==
    IF authTag = GcmTag(key, iv, aad, ciphertext)
    THEN Ok(ciphertext.plaintext)
    ELSE Throw(MsgGcmAuth)

(***************************************************************************)
(* bcrypt.                                                                 *)
(***************************************************************************)
\* bcryptjs keys the cipher with the first 72 bytes of the password
BcryptKey(password) ==
    IF Len(password) > BCRYPT_MAX_INPUT THEN SubSeq(password, 1, BCRYPT_MAX_INPUT) ELSE password

BcryptHash(password, salt) ==
    [alg |-> "bcrypt", rounds |-> BCRYPT_ROUNDS, salt |-> salt, password |-> BcryptKey(password)]

hashMasterPassword(password, k) ==
    LET salt == randomBytes(k)
    IN  [hashedPassword |-> BcryptHash(password, salt), salt |-> salt]

verifyMasterPassword(inputPassword, storedHash) ==
    BcryptHash(inputPassword, storedHash.salt) = storedHash

(***************************************************************************)
(* Session encryption of the master password.                              *)
(***************************************************************************)
B64(v) == [kind |-> "b64", val |-> v]
Colon == [kind |-> "colon", val |-> <<>>]

\* `${encrypted}:${iv}:${authTag}`
JoinColon(encrypted, iv, authTag) ==
    (IF encrypted.plaintext = <<>> THEN <<>> ELSE <<B64(encrypted)>>)
        \o <<Colon>> \o <<B64(iv)>> \o <<Colon>> \o <<B64(authTag)>>

RECURSIVE SplitColon(_)
\* String.prototype.split(":"): the sequence of segments between colons
SplitColon(s) ==
    IF s = <<>> THEN << <<>> >>
    ELSE LET rest == SplitColon(Tail(s))
         IN  IF Head(s).kind = "colon"
             THEN << <<>> >> \o rest
             ELSE << <<Head(s)>> \o rest[1] >> \o Tail(rest)

encryptMasterPasswordForSession(masterPw, k) ==
    LET sessionSalt == generateSalt(k)
        iv == generateIV(k + 1)
        sessionKey == pbkdf2Sync(masterPw, sessionSalt)
        c == GcmEncrypt(sessionKey, iv, <<>>, masterPw)
    IN  [encryptedMasterPassword |-> JoinColon(c.encrypted, iv, c.authTag),
         sessionSalt |-> sessionSalt]

decryptMasterPasswordFromSession(encryptedMasterPassword, sessionSalt, sessionToken) ==
    LET parts == SplitColon(encryptedMasterPassword)
        Missing(i) == Len(parts) < i \/ parts[i] = <<>>
    IN  IF Missing(1) \/ Missing(2) \/ Missing(3)
        THEN Throw(SessionDecryptionFailed(MsgBadSessionFormat))
        ELSE LET sessionKey == pbkdf2Sync(sessionToken, sessionSalt)
                 d == GcmDecrypt(sessionKey, parts[2][1].val, <<>>,
                                 parts[1][1].val, parts[3][1].val)
             IN  IF d.ok THEN d ELSE Throw(SessionDecryptionFailed(d.err))

(***************************************************************************)
(* JSON.stringify and JSON.parse over character sequences.                 *)
(***************************************************************************)
RECURSIVE EscapeJSON(_)
EscapeJSON(s) ==
    IF s = <<>> THEN <<>>
    ELSE (IF Head(s) \in {"\"", "\\"} THEN <<"\\", Head(s)>> ELSE <<Head(s)>>)
             \o EscapeJSON(Tail(s))

QuoteJSON(s) == <<"\"">> \o EscapeJSON(s) \o <<"\"">>

RECURSIVE JSONStringify(_)
RECURSIVE StringifyItems(_)
RECURSIVE StringifyPairs(_)
JSONStringify(x) ==
    CASE x.t = "str" -> QuoteJSON(x.v)
      [] x.t = "bool" -> IF x.v THEN <<"true">> ELSE <<"false">>
      [] x.t = "arr" -> <<"[">> \o StringifyItems(x.v) \o <<"]">>
      [] x.t = "obj" -> <<"{">> \o StringifyPairs(x.v) \o <<"}">>

StringifyItems(a) ==
    IF a = <<>> THEN <<>>
    ELSE JSONStringify(Head(a))
             \o (IF Tail(a) = <<>> THEN <<>> ELSE <<",">> \o StringifyItems(Tail(a)))

StringifyPairs(kvs) ==
    IF kvs = <<>> THEN <<>>
    ELSE QuoteJSON(Head(kvs).k) \o <<":">> \o JSONStringify(Head(kvs).v)
             \o (IF Tail(kvs) = <<>> THEN <<>> ELSE <<",">> \o StringifyPairs(Tail(kvs)))

\* parser results: ok, the value read and the rest of the text
Parsed(v, rest) == [ok |-> TRUE, val |-> v, rest |-> rest]
ParseFail == [ok |-> FALSE, val |-> Undefined, rest |-> <<>>]

RECURSIVE ParseChars(_, _)
\* the characters of a string literal up to its closing quote
ParseChars(s, acc) ==
    IF s = <<>> THEN ParseFail
    ELSE IF Head(s) = "\"" THEN Parsed(acc, Tail(s))
    ELSE IF Head(s) = "\\"
         THEN IF Len(s) < 2 \/ s[2] \notin {"\"", "\\"} THEN ParseFail
              ELSE ParseChars(Tail(Tail(s)), Append(acc, s[2]))
    ELSE ParseChars(Tail(s), Append(acc, Head(s)))

RECURSIVE ParseValue(_)
RECURSIVE ParseItems(_, _)
RECURSIVE ParsePairs(_, _)
ParseValue(s) ==
    IF s = <<>> THEN ParseFail
    ELSE CASE Head(s) = "true" -> Parsed(JBool(TRUE), Tail(s))
           [] Head(s) = "false" -> Parsed(JBool(FALSE), Tail(s))
           [] Head(s) = "\"" ->
                LET r == ParseChars(Tail(s), <<>>)
                IN  IF r.ok THEN Parsed(JStr(r.val), r.rest) ELSE ParseFail
           [] Head(s) = "[" ->
                IF Len(s) >= 2 /\ s[2] = "]" THEN Parsed(JArr(<<>>), Tail(Tail(s)))
                ELSE ParseItems(Tail(s), <<>>)
           [] Head(s) = "{" ->
                IF Len(s) >= 2 /\ s[2] = "}" THEN Parsed(JObj(<<>>), Tail(Tail(s)))
                ELSE ParsePairs(Tail(s), <<>>)
           [] OTHER -> ParseFail

ParseItems(s, acc) ==
    LET r == ParseValue(s)
    IN  IF ~r.ok \/ r.rest = <<>> THEN ParseFail
        ELSE IF Head(r.rest) = "]" THEN Parsed(JArr(Append(acc, r.val)), Tail(r.rest))
        ELSE IF Head(r.rest) = "," THEN ParseItems(Tail(r.rest), Append(acc, r.val))
        ELSE ParseFail

ParsePairs(s, acc) ==
    IF s = <<>> \/ Head(s) # "\"" THEN ParseFail
    ELSE LET k == ParseChars(Tail(s), <<>>)
         IN  IF ~k.ok \/ k.rest = <<>> \/ Head(k.rest) # ":" THEN ParseFail
             ELSE LET r == ParseValue(Tail(k.rest))
                  IN  IF ~r.ok \/ r.rest = <<>> THEN ParseFail
                      ELSE IF Head(r.rest) = "}"
                           THEN Parsed(JObj(Append(acc, KV(k.val, r.val))), Tail(r.rest))
                      ELSE IF Head(r.rest) = ","
                           THEN ParsePairs(Tail(r.rest), Append(acc, KV(k.val, r.val)))
                      ELSE ParseFail

JSONParse(text) ==
    LET r == ParseValue(text)
    IN  IF r.ok /\ r.rest = <<>> THEN Ok(r.val) ELSE Throw(MsgJsonSyntax)

RECURSIVE GetProp(_, _)
\* property read x[key]: the last pair with that key, undefined when absent
GetProp(x, key) ==
    IF x.t # "obj" \/ x.v = <<>> THEN Undefined
    ELSE LET last == x.v[Len(x.v)]
         IN  IF last.k = key THEN last.v
             ELSE GetProp(JObj(SubSeq(x.v, 1, Len(x.v) - 1)), key)

(***************************************************************************)
(* Envelope cipher for password entries.                                   *)
(***************************************************************************)
\* an encryption that binds the iv, not the salt, as additional data
encryptPasswordEntry_AadIv(data, masterPw, k) ==
    LET salt == generateSalt(k)
        iv == generateIV(k + 1)
        key == deriveKey(masterPw, salt)
        dataString == JSONStringify(data)
        c == GcmEncrypt(key, Base64Decode(iv), Base64Decode(iv), dataString)
    IN  [encryptedData |-> c.encrypted, salt |-> salt, iv |-> iv, authTag |-> c.authTag]

encryptPasswordEntry(data, masterPw, k) ==
    LET salt == generateSalt(k)
        iv == generateIV(k + 1)
        key == deriveKey(masterPw, salt)
        dataString == JSONStringify(data)
        c == GcmEncrypt(key, Base64Decode(iv), Base64Decode(salt), dataString)
    IN  [encryptedData |-> c.encrypted, salt |-> salt, iv |-> iv, authTag |-> c.authTag]

decryptPasswordEntry(encrypted, masterPw) ==
    LET key == deriveKey(masterPw, encrypted.salt)
        d == GcmDecrypt(key, Base64Decode(encrypted.iv), Base64Decode(encrypted.salt),
                        encrypted.encryptedData, encrypted.authTag)
    IN  IF ~d.ok THEN Throw(DecryptionFailed(d.err))
        ELSE LET p == JSONParse(d.val)
             IN  IF ~p.ok THEN Throw(DecryptionFailed(p.err))
                 ELSE IF GetProp(p.val, <<"title">>).t # "str"
                         \/ GetProp(p.val, <<"fields">>).t # "arr"
                      THEN Throw(DecryptionFailed(MsgBadStructure))
                      ELSE Ok(p.val)

(***************************************************************************)
(* DatabaseStorage: the operations on the three tables.                    *)
(***************************************************************************)
\* db.select().from(masterPassword).limit(1), result[0]
getMasterPassword ==
    IF masterPassword = {} THEN {Undefined} ELSE masterPassword

createMasterPassword(masterPasswordData, k) ==
    [id |-> randomUUID(k),
     hashedPassword |-> masterPasswordData.hashedPassword,
     salt |-> masterPasswordData.salt,
     createdAt |-> now]

\* DatabaseStorage.verifyMasterPassword
storageVerifyMasterPassword(inputPassword, masterPasswordRecord) ==
    IF masterPasswordRecord = Undefined THEN FALSE
    ELSE verifyMasterPassword(inputPassword, masterPasswordRecord.hashedPassword)

\* the rows the session query of verifySession and getMasterPasswordFromSession selects
SelectSession(sessionToken) ==
    {s \in sessions : s.sessionToken = sessionToken /\ s.isActive = TRUE /\ s.expiresAt > now}

\* verifySession without the is_active condition
verifySession_IgnoresActive(sessionToken) ==
    \E s \in sessions : s.sessionToken = sessionToken /\ s.expiresAt > now

verifySession(sessionToken) == Cardinality(SelectSession(sessionToken)) > 0

\* the possible outcomes of getMasterPasswordFromSession
getMasterPasswordFromSession(sessionToken) ==
    IF Cardinality(SelectSession(sessionToken)) = 0
    THEN {Throw(MsgInvalidOrExpired)}
    ELSE {decryptMasterPasswordFromSession(s.encryptedMasterPassword, s.sessionSalt, sessionToken) :
              s \in SelectSession(sessionToken)}

\* a session row stamped with the entry lifetime instead of the session lifetime
NewSession_EntryLifetime(masterPw, k) ==
    LET e == encryptMasterPasswordForSession(masterPw, k + 2)
    IN  [id |-> randomUUID(k + 4),
         sessionToken |-> randomUUID(k) \o <<"-">> \o randomUUID(k + 1),
         encryptedMasterPassword |-> e.encryptedMasterPassword,
         sessionSalt |-> e.sessionSalt,
         createdAt |-> now,
         expiresAt |-> now + ENTRY_LIFETIME,
         isActive |-> TRUE]

\* a session row whose token is the same on every call
NewSession_FixedToken(masterPw, k) ==
    LET e == encryptMasterPasswordForSession(masterPw, k + 2)
    IN  [id |-> randomUUID(k + 4),
         sessionToken |-> randomUUID(0) \o <<"-">> \o randomUUID(1),
         encryptedMasterPassword |-> e.encryptedMasterPassword,
         sessionSalt |-> e.sessionSalt,
         createdAt |-> now,
         expiresAt |-> now + SESSION_LIFETIME,
         isActive |-> TRUE]

\* the session row createSession builds from random draws k .. k+4
NewSession(masterPw, k) ==
    LET sessionToken == randomUUID(k) \o <<"-">> \o randomUUID(k + 1)
        createdAt == now
        expiresAt == createdAt + SESSION_LIFETIME
        e == encryptMasterPasswordForSession(masterPw, k + 2)
    IN  [id |-> randomUUID(k + 4),
         sessionToken |-> sessionToken,
         encryptedMasterPassword |-> e.encryptedMasterPassword,
         sessionSalt |-> e.sessionSalt,
         createdAt |-> createdAt,
         expiresAt |-> expiresAt,
         isActive |-> TRUE]

\* createSession without the master password check
createSession_NoVerify(masterPw, rec, k) == Ok(NewSession(masterPw, k))

\* the outcome of createSession for the master password row rec that getMasterPassword read
createSession(masterPw, rec, k) ==
    IF ~storageVerifyMasterPassword(masterPw, rec)
    THEN Throw(MsgInvalidMasterPassword)
    ELSE Ok(NewSession(masterPw, k))

\* an invalidation without the where clause on the token
invalidateSession_All(sessionToken) ==
    {[s EXCEPT !.isActive = FALSE] : s \in sessions}

\* an invalidation that flips the flag instead of clearing it
invalidateSession_Toggle(sessionToken) ==
    {IF s.sessionToken = sessionToken THEN [s EXCEPT !.isActive = ~s.isActive] ELSE s : s \in sessions}

invalidateSession(sessionToken) ==
    {IF s.sessionToken = sessionToken THEN [s EXCEPT !.isActive = FALSE] ELSE s : s \in sessions}

\* a sweep that spares the sessions still marked active
ExpiredSessions_OnlyInactive == {s \in sessions : s.expiresAt <= now /\ ~s.isActive}

ExpiredSessions == {s \in sessions : s.expiresAt <= now}

cleanupExpiredSessions == sessions \ ExpiredSessions

\* an entry row stamped with the session lifetime instead of the entry lifetime
NewEntry_SessionLifetime(entryData, masterPw, k) ==
    LET encrypted == encryptPasswordEntry(entryData, masterPw, k + 1)
    IN  [id |-> randomUUID(k),
         encryptedData |-> encrypted.encryptedData,
         salt |-> encrypted.salt,
         iv |-> encrypted.iv,
         authTag |-> encrypted.authTag,
         createdAt |-> now,
         expiresAt |-> now + SESSION_LIFETIME,
         isDeleted |-> FALSE]

\* the entry row createPasswordEntry builds from random draws k .. k+2
NewEntry(entryData, masterPw, k) ==
    LET id == randomUUID(k)
        expiresAt == now + ENTRY_LIFETIME
        encrypted == encryptPasswordEntry(entryData, masterPw, k + 1)
    IN  [id |-> id,
         encryptedData |-> encrypted.encryptedData,
         salt |-> encrypted.salt,
         iv |-> encrypted.iv,
         authTag |-> encrypted.authTag,
         createdAt |-> now,
         expiresAt |-> expiresAt,
         isDeleted |-> FALSE]

\* the possible outcomes of createPasswordEntry
createPasswordEntry(entryData, sessionToken, k) ==
    IF ~verifySession(sessionToken) THEN {Throw(MsgInvalidSessionDenied)}
    ELSE {IF m.ok THEN Ok(NewEntry(entryData, m.val, k)) ELSE m :
              m \in getMasterPasswordFromSession(sessionToken)}

ActiveEntries == {e \in passwordEntries : e.isDeleted = FALSE /\ e.expiresAt > now}

\* the orders ORDER BY created_at DESC can return the rows in
OrderByCreatedAtDesc(rows) ==
    {q \in [1..Cardinality(rows) -> rows] :
        /\ \A i, j \in DOMAIN q : i # j => q[i] # q[j]
        /\ \A i, j \in DOMAIN q : i < j => q[i].createdAt >= q[j].createdAt}

RECURSIVE DecryptEntries(_, _)
\* the loop of getAllPasswordEntries: entries that fail to decrypt are skipped
DecryptEntries(rows, masterPw) ==
    IF rows = <<>> THEN <<>>
    ELSE LET d == decryptPasswordEntry(
                      [encryptedData |-> Head(rows).encryptedData, salt |-> Head(rows).salt,
                       iv |-> Head(rows).iv, authTag |-> Head(rows).authTag], masterPw)
         IN  (IF d.ok
              THEN <<PasswordEntryData(GetProp(d.val, <<"title">>).v, GetProp(d.val, <<"fields">>).v)>>
              ELSE <<>>) \o DecryptEntries(Tail(rows), masterPw)

\* the possible outcomes of getAllPasswordEntries
getAllPasswordEntries(sessionToken) ==
    IF ~verifySession(sessionToken) THEN {Throw(MsgInvalidSessionDenied)}
    ELSE UNION {IF m.ok
                THEN {Ok(DecryptEntries(q, m.val)) : q \in OrderByCreatedAtDesc(ActiveEntries)}
                ELSE {m} :
                    m \in getMasterPasswordFromSession(sessionToken)}

\* an update that flips the flag of every row
SoftDeleted_Toggle == {[e EXCEPT !.isDeleted = ~e.isDeleted] : e \in passwordEntries}

\* an update that spares the rows already past their expiry
SoftDeleted_OnlyUnexpired ==
    {IF e.isDeleted = FALSE /\ e.expiresAt > now THEN [e EXCEPT !.isDeleted = TRUE] ELSE e :
        e \in passwordEntries}

\* the entries table after deleteAllPasswordEntries' update
SoftDeleted == {IF e.isDeleted = FALSE THEN [e EXCEPT !.isDeleted = TRUE] ELSE e : e \in passwordEntries}

\* deleteAllPasswordEntries without the session check
deleteAllPasswordEntries_NoCheck(sessionToken) == Ok(SoftDeleted)

deleteAllPasswordEntries(sessionToken) ==
    IF ~verifySession(sessionToken) THEN Throw(MsgInvalidSessionDenied)
    ELSE Ok(SoftDeleted)

\* a purge that takes only the rows already marked deleted
ExpiredEntries_OnlyDeleted == {e \in passwordEntries : e.expiresAt <= now /\ e.isDeleted}

\* the purge filtering on the creation time instead of the expiry time
ExpiredEntries_ByCreation == {e \in passwordEntries : e.createdAt <= now}

ExpiredEntries == {e \in passwordEntries : e.expiresAt <= now}

\* the purge also dropping the rows already marked deleted
deleteExpiredEntries_AlsoDeleted ==
    {e \in passwordEntries : e.expiresAt > now /\ e.isDeleted = FALSE}

deleteExpiredEntries == passwordEntries \ ExpiredEntries

\* the outcome of setupMasterPassword for the row existing that getMasterPassword read
setupMasterPassword(password, existing, k) ==
    IF existing # Undefined THEN Throw(MsgAlreadyExists)
    ELSE Ok(createMasterPassword(hashMasterPassword(password, k), k + 1))

\* an existence check that never finds the row
checkMasterPasswordExists_Never(existing) == FALSE

checkMasterPasswordExists(existing) == existing # Undefined

(***************************************************************************)
(* Responses: what the last step returned to its caller.                   *)
(***************************************************************************)
NoOut == [token |-> <<>>, expiresAt |-> 0, entries |-> <<>>, flag |-> FALSE, count |-> 0,
          sessionCount |-> 0]

Reply(op, tok, sec, entry, status, err, out) ==
    [op |-> op, tok |-> tok, sec |-> sec, entry |-> entry,
     status |-> status, err |-> err, out |-> out]

Idle == Reply("idle", <<>>, <<>>, Undefined, 0, NoError, NoOut)

\* the catch blocks of the session routes: 401 for a session error, 500 otherwise
CatchStatus(err) == IF Includes(err, <<"Invalid", "session">>) THEN 401 ELSE 500

\* zod: passwordEntryCreateSchema.entry
ValidEntry(entry) ==
    /\ Len(GetProp(entry, <<"title">>).v) >= 1
    /\ Len(GetProp(entry, <<"fields">>).v) >= 1
    /\ \A i \in DOMAIN GetProp(entry, <<"fields">>).v :
          LET f == GetProp(entry, <<"fields">>).v[i]
          IN  Len(GetProp(f, <<"name">>).v) >= 1 /\ Len(GetProp(f, <<"value">>).v) >= 1

(***************************************************************************)
(* The interval timers of the process.  Every new DatabaseStorage() starts *)
(* one in its constructor; the count MaxTimers stands for MaxTimers or     *)
(* more.                                                                   *)
(***************************************************************************)
NewStorage(n) == IF timers + n > MaxTimers THEN MaxTimers ELSE timers + n

(***************************************************************************)
(* Console output: the lines the last step wrote with console.log or       *)
(* console.error.  An Error object is printed with its message.            *)
(***************************************************************************)
\* catch (error) { console.error(label, error); ... } of a route
CatchLog(label, r) == IF r.err # NoError THEN {label \o r.err} ELSE {}

\* console.error(`Failed to decrypt entry ${entry.id}:`, error) in the loop of
\* getAllPasswordEntries
DecryptFailureLog(sessionToken) ==
    IF ~verifySession(sessionToken) THEN {}
    ELSE UNION { IF ~m.ok THEN {}
                 ELSE { <<"Failed", "to", "decrypt", "entry">> \o e.id \o <<":">>
                           \o decryptPasswordEntry([encryptedData |-> e.encryptedData,
                                  iv |-> e.iv, authTag |-> e.authTag, salt |-> e.salt],
                                  m.val).err :
                        e \in { x \in ActiveEntries :
                                  ~decryptPasswordEntry([encryptedData |-> x.encryptedData,
                                      iv |-> x.iv, authTag |-> x.authTag, salt |-> x.salt],
                                      m.val).ok } } :
                 m \in getMasterPasswordFromSession(sessionToken) }

\* console.log(`Deleted ${deletedCount} expired ... from database`), if any
DeletedLog(deletedCount, what) ==
    IF deletedCount > 0
    THEN {<<"Deleted", ToString(deletedCount), "expired">> \o what \o <<"from", "database">>}
    ELSE {}


(***************************************************************************)
(* Initial state: empty tables, one process, no request served yet.        *)
(***************************************************************************)
Init ==
    /\ masterPassword = {}
    /\ sessions = {}
    /\ passwordEntries = {}
    /\ now = 0
    /\ rnd = 0
    /\ issued = {}
    /\ resp = Idle
    /\ console = {}
    /\ passwords = {}
    /\ timers = 1
    /\ inflight = {}

(***************************************************************************)
(* Request handlers.                                                       *)
(***************************************************************************)
\* GET /api/master-password/exists
MasterPasswordExists ==
    /\ \E existing \in getMasterPassword :
          resp' = Reply("exists", <<>>, <<>>, Undefined, 200, NoError,
                        [NoOut EXCEPT !.flag = checkMasterPasswordExists(existing)])
    /\ UNCHANGED <<masterPassword, sessions, passwordEntries, now, rnd, issued>>
    /\ console' = CatchLog(<<"Error", "checking", "master", "password", "existence:">>, resp')
    /\ UNCHANGED passwords
    /\ timers' = NewStorage(1)
    /\ UNCHANGED inflight

\* a create route that replaces the stored row by one for the new secret
ConfigureMasterSecret_Rotate(secret) ==
    /\ Len(secret) >= MASTER_MIN_LEN
    /\ Cardinality(masterPassword) = 1
    /\ secret \notin {m.hashedPassword.password : m \in masterPassword}
    /\ masterPassword' = {createMasterPassword(hashMasterPassword(secret, rnd), rnd + 1)}
    /\ rnd' = rnd + 2
    /\ resp' = Reply("configure", <<>>, secret, Undefined, 201, NoError, NoOut)
    /\ console' = {}
    /\ UNCHANGED <<sessions, passwordEntries, passwords, now, issued>>
    /\ timers' = NewStorage(2)
    /\ UNCHANGED inflight

\* POST /api/master-password/create
ConfigureMasterSecret(secret) ==
    /\ IF Len(secret) < MASTER_MIN_LEN
       THEN /\ resp' = Reply("configure", <<>>, secret, Undefined, 400, NoError, NoOut)
            /\ UNCHANGED <<masterPassword, sessions, passwordEntries, now, rnd, issued>>
       ELSE \E existing \in getMasterPassword :
               IF checkMasterPasswordExists(existing)
               THEN /\ resp' = Reply("configure", <<>>, secret, Undefined, 409, NoError, NoOut)
                    /\ UNCHANGED <<masterPassword, sessions, passwordEntries, now, rnd, issued>>
               ELSE LET r == setupMasterPassword(secret, existing, rnd)
                    IN  IF r.ok
                        THEN /\ masterPassword' = masterPassword \cup {r.val}
                             /\ rnd' = rnd + 2
                             /\ resp' = Reply("configure", <<>>, secret, Undefined, 201, NoError, NoOut)
                             /\ UNCHANGED <<sessions, passwordEntries, now, issued>>
                        ELSE /\ resp' = Reply("configure", <<>>, secret, Undefined, 500, r.err, NoOut)
                             /\ UNCHANGED <<masterPassword, sessions, passwordEntries, now, rnd, issued>>
    /\ console' = CatchLog(<<"Error", "creating", "master", "password:">>, resp')
    /\ UNCHANGED passwords
    /\ timers' = NewStorage(IF resp'.status = 400 THEN 0 ELSE IF resp'.status = 409 THEN 1 ELSE 2)
    /\ UNCHANGED inflight

\* POST /api/auth/login: the route up to its response
LoginRequest(secret) ==
    IF Len(secret) < 1
    THEN /\ resp' = Reply("login", <<>>, secret, Undefined, 400, NoError, NoOut)
         /\ UNCHANGED <<masterPassword, sessions, passwordEntries, now, rnd, issued>>
    ELSE \E rec \in getMasterPassword :
            LET r == createSession(secret, rec, rnd)
            IN  IF r.ok
                THEN /\ Cardinality(issued) < MaxSessions
                     /\ sessions' = sessions \cup {r.val}
                     /\ rnd' = rnd + 5
                     /\ issued' = issued \cup {r.val.sessionToken}
                     /\ resp' = Reply("login", <<>>, secret, Undefined, 200, NoError,
                                      [NoOut EXCEPT !.token = r.val.sessionToken,
                                                    !.expiresAt = r.val.expiresAt])
                     /\ UNCHANGED <<masterPassword, passwordEntries, now>>
                ELSE /\ resp' = Reply("login", <<>>, secret, Undefined, CatchStatus(r.err), r.err, NoOut)
                     /\ UNCHANGED <<masterPassword, sessions, passwordEntries, now, rnd, issued>>

\* POST /api/auth/login sent by any client
Login(secret) ==
    /\ LoginRequest(secret)
    /\ console' = CatchLog(<<"Error", "creating", "session:">>, resp')
    /\ UNCHANGED passwords
    /\ UNCHANGED timers
    /\ UNCHANGED inflight

\* String.prototype.trim
RECURSIVE Trim(_)
Trim(str) ==
    IF str = <<>> THEN str
    ELSE IF Head(str) = " " THEN Trim(Tail(str))
    ELSE IF str[Len(str)] = " " THEN Trim(SubSeq(str, 1, Len(str) - 1))
    ELSE str

\* HomePage.handleSubmit: the login form of the client hands the password to
\* onPasswordSubmit (App: createSessionMutation.mutate, the POST above) and
\* writes it to the console
HomePageSubmit(password) ==
    /\ Trim(password) # <<>>
    /\ LoginRequest(password)
    /\ console' = {<<"Password", "submitted:">> \o password}
                     \cup CatchLog(<<"Error", "creating", "session:">>, resp')
    /\ UNCHANGED passwords
    /\ UNCHANGED timers
    /\ UNCHANGED inflight

\* POST /api/auth/logout
Logout(sessionToken) ==
    /\ IF Len(sessionToken) < 1
       THEN /\ resp' = Reply("logout", sessionToken, <<>>, Undefined, 400, NoError, NoOut)
            /\ UNCHANGED <<masterPassword, sessions, passwordEntries, now, rnd, issued>>
       ELSE /\ sessions' = invalidateSession(sessionToken)
            /\ resp' = Reply("logout", sessionToken, <<>>, Undefined, 200, NoError, NoOut)
            /\ UNCHANGED <<masterPassword, passwordEntries, now, rnd, issued>>
    /\ console' = CatchLog(<<"Error", "terminating", "session:">>, resp')
    /\ UNCHANGED passwords
    /\ UNCHANGED timers
    /\ UNCHANGED inflight

\* POST /api/password-entries
CreateEntry(sessionToken, entry) ==
    /\ IF Len(sessionToken) < 1 \/ ~ValidEntry(entry)
       THEN /\ resp' = Reply("createEntry", sessionToken, <<>>, entry, 400, NoError, NoOut)
            /\ UNCHANGED <<masterPassword, sessions, passwordEntries, now, rnd, issued>>
       ELSE \E r \in createPasswordEntry(entry, sessionToken, rnd) :
               IF r.ok
               THEN /\ Cardinality(passwordEntries) < MaxEntries
                    /\ passwordEntries' = passwordEntries \cup {r.val}
                    /\ rnd' = rnd + 3
                    /\ resp' = Reply("createEntry", sessionToken, <<>>, entry, 201, NoError,
                                     [NoOut EXCEPT !.expiresAt = r.val.expiresAt])
                    /\ UNCHANGED <<masterPassword, sessions, now, issued>>
               ELSE /\ resp' = Reply("createEntry", sessionToken, <<>>, entry, CatchStatus(r.err), r.err, NoOut)
                    /\ UNCHANGED <<masterPassword, sessions, passwordEntries, now, rnd, issued>>
    /\ console' = CatchLog(<<"Error", "creating", "password", "entry:">>, resp')
    /\ UNCHANGED passwords
    /\ UNCHANGED timers
    /\ UNCHANGED inflight

\* POST /api/password-entries/list
ListEntries(sessionToken) ==
    /\ IF Len(sessionToken) < 1
       THEN /\ resp' = Reply("listEntries", sessionToken, <<>>, Undefined, 400, NoError, NoOut)
            /\ UNCHANGED <<masterPassword, sessions, passwordEntries, now, rnd, issued>>
       ELSE /\ \E r \in getAllPasswordEntries(sessionToken) :
                  resp' = IF r.ok
                          THEN Reply("listEntries", sessionToken, <<>>, Undefined, 200, NoError,
                                     [NoOut EXCEPT !.entries = r.val])
                          ELSE Reply("listEntries", sessionToken, <<>>, Undefined,
                                     CatchStatus(r.err), r.err, NoOut)
            /\ UNCHANGED <<masterPassword, sessions, passwordEntries, now, rnd, issued>>
    /\ console' = CatchLog(<<"Error", "retrieving", "password", "entries:">>, resp')
                     \cup (IF resp'.status = 400 THEN {} ELSE DecryptFailureLog(sessionToken))
    /\ UNCHANGED passwords
    /\ UNCHANGED timers
    /\ UNCHANGED inflight

\* POST /api/password-entries/delete-all
DeleteAllEntries(sessionToken) ==
    /\ IF Len(sessionToken) < 1
       THEN /\ resp' = Reply("deleteAllEntries", sessionToken, <<>>, Undefined, 400, NoError, NoOut)
            /\ UNCHANGED <<masterPassword, sessions, passwordEntries, now, rnd, issued>>
       ELSE LET r == deleteAllPasswordEntries(sessionToken)
            IN  IF r.ok
                THEN /\ passwordEntries' = r.val
                     /\ resp' = Reply("deleteAllEntries", sessionToken, <<>>, Undefined, 200, NoError, NoOut)
                     /\ UNCHANGED <<masterPassword, sessions, now, rnd, issued>>
                ELSE /\ resp' = Reply("deleteAllEntries", sessionToken, <<>>, Undefined,
                                      CatchStatus(r.err), r.err, NoOut)
                     /\ UNCHANGED <<masterPassword, sessions, passwordEntries, now, rnd, issued>>
    /\ console' = CatchLog(<<"Error", "deleting", "password", "entries:">>, resp')
    /\ UNCHANGED passwords
    /\ UNCHANGED timers
    /\ UNCHANGED inflight

\* GET /api/admin/stats
AdminStats ==
    /\ passwordEntries' = deleteExpiredEntries
    /\ \E existing \in getMasterPassword :
          resp' = Reply("adminStats", <<>>, <<>>, Undefined, 200, NoError,
                        [NoOut EXCEPT !.count = Cardinality(ExpiredEntries),
                                      !.flag = checkMasterPasswordExists(existing)])
    /\ UNCHANGED <<masterPassword, sessions, now, rnd, issued>>
    /\ console' = CatchLog(<<"Error", "getting", "admin", "stats:">>, resp')
                     \cup DeletedLog(Cardinality(ExpiredEntries), <<"password", "entries">>)
    /\ UNCHANGED passwords
    /\ timers' = NewStorage(1)
    /\ UNCHANGED inflight

\* IStorage.verifySession, called on its own
VerifySession(sessionToken) ==
    /\ resp' = Reply("verifySession", sessionToken, <<>>, Undefined, 0, NoError,
                     [NoOut EXCEPT !.flag = verifySession(sessionToken)])
    /\ UNCHANGED <<masterPassword, sessions, passwordEntries, now, rnd, issued>>
    /\ console' = {}
    /\ UNCHANGED passwords
    /\ UNCHANGED timers
    /\ UNCHANGED inflight

(***************************************************************************)
(* The hourly cleanup timer of the DatabaseStorage constructor, and time.  *)
(***************************************************************************)
\* the rejection of a database statement that fails
MsgDbError == <<"Connection", "terminated", "unexpectedly">>

\* .catch(console.error) on the promise of a sweep method
RejectionLog(fails) == IF fails THEN {<<"Error:">> \o MsgDbError} ELSE {}

\* a callback whose promises have no catch: a rejection ends the process
SweepTimerRun_NoCatch(purgeFails, sweepFails) ==
    /\ timers >= 1
    /\ passwordEntries' = IF purgeFails THEN passwordEntries ELSE deleteExpiredEntries
    /\ sessions' = IF sweepFails THEN sessions ELSE cleanupExpiredSessions
    /\ resp' = Reply("sweep", <<>>, <<>>, Undefined, 0, NoError,
                     [NoOut EXCEPT !.count = IF purgeFails THEN 0 ELSE Cardinality(ExpiredEntries),
                                   !.sessionCount = IF sweepFails THEN 0
                                                    ELSE Cardinality(ExpiredSessions)])
    /\ console' = (IF purgeFails THEN {}
                   ELSE DeletedLog(Cardinality(ExpiredEntries), <<"password", "entries">>))
                     \cup (IF sweepFails THEN {}
                           ELSE DeletedLog(Cardinality(ExpiredSessions), <<"sessions">>))
    /\ timers' = IF purgeFails \/ sweepFails THEN 0 ELSE timers
    /\ UNCHANGED <<masterPassword, passwords, now, rnd, issued, inflight>>

\* one run of the setInterval callback: both sweep methods are started, each
\* with its own catch; purgeFails and sweepFails say whether the database
\* rejects the statement of deleteExpiredEntries and of cleanupExpiredSessions
SweepTimerRun(purgeFails, sweepFails) ==
    /\ timers >= 1
    /\ passwordEntries' = IF purgeFails THEN passwordEntries ELSE deleteExpiredEntries
    /\ sessions' = IF sweepFails THEN sessions ELSE cleanupExpiredSessions
    /\ resp' = Reply("sweep", <<>>, <<>>, Undefined, 0, NoError,
                     [NoOut EXCEPT !.count = IF purgeFails THEN 0 ELSE Cardinality(ExpiredEntries),
                                   !.sessionCount = IF sweepFails THEN 0
                                                    ELSE Cardinality(ExpiredSessions)])
    /\ console' = (IF purgeFails THEN RejectionLog(TRUE)
                   ELSE DeletedLog(Cardinality(ExpiredEntries), <<"password", "entries">>))
                     \cup (IF sweepFails THEN RejectionLog(TRUE)
                           ELSE DeletedLog(Cardinality(ExpiredSessions), <<"sessions">>))
    /\ UNCHANGED <<masterPassword, passwords, now, rnd, issued, timers, inflight>>

\* a run of the callback with the database available
SweepTimer == SweepTimerRun(FALSE, FALSE)

Tick ==
    /\ now < MaxTime
    /\ now' = now + 1
    /\ resp' = Idle
    /\ UNCHANGED <<masterPassword, sessions, passwordEntries, rnd, issued>>
    /\ console' = {}
    /\ UNCHANGED passwords
    /\ UNCHANGED timers
    /\ UNCHANGED inflight

Next ==
    \/ MasterPasswordExists
    \/ \E secret \in SecretInputs : ConfigureMasterSecret(secret)
    \/ \E secret \in SecretInputs : Login(secret)
    \/ \E secret \in SecretInputs : HomePageSubmit(secret)
    \/ \E t \in TokenInputs : Logout(t)
    \/ \E t \in TokenInputs, e \in EntryInputs : CreateEntry(t, e)
    \/ \E t \in TokenInputs : ListEntries(t)
    \/ \E t \in TokenInputs : DeleteAllEntries(t)
    \/ \E t \in TokenInputs : VerifySession(t)
    \/ AdminStats
    \/ SweepTimer
    \/ Tick

Spec == Init /\ [][Next]_vars

(***************************************************************************)
(* A database that already holds rows when the process starts: a master    *)
(* password row for SecretA and entries sealed under SecretA, one of them  *)
(* created twenty hours ago.                                               *)
(***************************************************************************)
SeedMasterPassword ==
    LET h == hashMasterPassword(SecretA, 0)
    IN  [id |-> randomUUID(1), hashedPassword |-> h.hashedPassword, salt |-> h.salt,
         createdAt |-> 0 - ENTRY_LIFETIME]

SeedEntry(entryData, k, createdAt) ==
    LET encrypted == encryptPasswordEntry(entryData, SecretA, k + 1)
    IN  [id |-> randomUUID(k),
         encryptedData |-> encrypted.encryptedData,
         salt |-> encrypted.salt,
         iv |-> encrypted.iv,
         authTag |-> encrypted.authTag,
         createdAt |-> createdAt,
         expiresAt |-> createdAt + ENTRY_LIFETIME,
         isDeleted |-> FALSE]

SeedEntries == {SeedEntry(EntryMail, 2, 1 - ENTRY_LIFETIME), SeedEntry(EntryBank, 5, 0)}

InitSeeded ==
    \/ Init
    \/ /\ masterPassword = {SeedMasterPassword}
       /\ sessions = {}
       /\ passwordEntries \in SUBSET SeedEntries
       /\ now = 0
       /\ rnd = 8
       /\ issued = {}
       /\ resp = Idle
       /\ console = {}
       /\ passwords = {}
       /\ timers = 1
       /\ inflight = {}

SpecSeeded == InitSeeded /\ [][Next]_vars

(***************************************************************************)
(* A database holding, next to an entry sealed under the configured        *)
(* secret SecretA, a row whose envelope was sealed under another secret.   *)
(***************************************************************************)
SeedForeignEntry ==
    LET encrypted == encryptPasswordEntry(EntryMail, SecretB, 12)
    IN  [id |-> randomUUID(11),
         encryptedData |-> encrypted.encryptedData,
         salt |-> encrypted.salt,
         iv |-> encrypted.iv,
         authTag |-> encrypted.authTag,
         createdAt |-> 0,
         expiresAt |-> ENTRY_LIFETIME,
         isDeleted |-> FALSE]

InitForeign ==
    /\ masterPassword = {SeedMasterPassword}
    /\ sessions = {}
    /\ passwordEntries = {SeedEntry(EntryBank, 5, 0), SeedForeignEntry}
    /\ now = 0
    /\ rnd = 14
    /\ issued = {}
    /\ resp = Idle
    /\ console = {}
    /\ passwords = {}
    /\ timers = 1
    /\ inflight = {}

SpecForeign == InitForeign /\ [][Next]_vars

(***************************************************************************)
(* The crypto unit on its own: payloads and secrets drawn from the input   *)
(* sets are sealed into rows and rows are opened under either secret.      *)
(***************************************************************************)
CipherSecrets == {SecretA, SecretB}

\* encryptPasswordEntry applied to a payload, the envelope kept as a row
SealEntry(data, masterPw) ==
    /\ Cardinality(passwordEntries) < MaxEntries
    /\ passwordEntries' = passwordEntries \cup {NewEntry(data, masterPw, rnd)}
    /\ rnd' = rnd + 3
    /\ resp' = Reply("seal", randomUUID(rnd), masterPw, data, 0, NoError, NoOut)
    /\ console' = {}
    /\ UNCHANGED <<masterPassword, sessions, now, issued>>
    /\ UNCHANGED passwords
    /\ UNCHANGED timers
    /\ UNCHANGED inflight

\* decryptPasswordEntry applied to the envelope of a row
OpenEntry(e, masterPw) ==
    /\ LET d == decryptPasswordEntry([encryptedData |-> e.encryptedData, salt |-> e.salt,
                                      iv |-> e.iv, authTag |-> e.authTag], masterPw)
       IN  resp' = Reply("open", e.id, masterPw, IF d.ok THEN d.val ELSE Undefined, 0,
                         IF d.ok THEN NoError ELSE d.err, NoOut)
    /\ console' = {}
    /\ UNCHANGED <<masterPassword, sessions, passwordEntries, now, rnd, issued>>
    /\ UNCHANGED passwords
    /\ UNCHANGED timers
    /\ UNCHANGED inflight

EnvelopeFields == {"encryptedData", "salt", "iv", "authTag"}

\* the values put in place of one column of a stored envelope: the same
\* column of another stored envelope and, for the base64 texts the model
\* spells out, the same text with white space added
ReplacementValues(e, field) ==
    {f[field] : f \in passwordEntries \ {e}}
        \cup (IF field \in {"salt", "iv"} THEN {e[field] \o <<" ">>} ELSE {})

ReplacedOp(field) ==
    CASE field = "encryptedData" -> "openReplacedData"
      [] field = "salt" -> "openReplacedSalt"
      [] field = "iv" -> "openReplacedIv"
      [] field = "authTag" -> "openReplacedTag"

\* decryptPasswordEntry on a stored envelope with one column replaced
OpenReplaced(e, field, value, masterPw) ==
    /\ value # e[field]
    /\ LET stored == [encryptedData |-> e.encryptedData, salt |-> e.salt,
                      iv |-> e.iv, authTag |-> e.authTag]
           d == decryptPasswordEntry([stored EXCEPT ![field] = value], masterPw)
       IN  resp' = Reply(ReplacedOp(field), e.id, masterPw, IF d.ok THEN d.val ELSE Undefined, 0,
                         IF d.ok THEN NoError ELSE d.err, NoOut)
    /\ console' = {}
    /\ UNCHANGED <<masterPassword, sessions, passwordEntries, passwords, now, rnd, issued,
                   timers, inflight>>

NextCipher ==
    \/ \E data \in PayloadInputs, masterPw \in CipherSecrets : SealEntry(data, masterPw)
    \/ \E e \in passwordEntries, masterPw \in CipherSecrets : OpenEntry(e, masterPw)

SpecCipher == Init /\ [][NextCipher]_vars

\* sealing, and opening with one column replaced
NextReplaced ==
    \/ \E data \in {EntryBank, EntryNoFields}, masterPw \in CipherSecrets : SealEntry(data, masterPw)
    \/ \E e \in passwordEntries, field \in EnvelopeFields, masterPw \in CipherSecrets :
          \E value \in ReplacementValues(e, field) : OpenReplaced(e, field, value, masterPw)

SpecReplaced == Init /\ [][NextReplaced]_vars

(***************************************************************************)
(* Sealing on its own: entries sealed under either secret and sessions     *)
(* sealed by the login of the configured secret draw from one random       *)
(* source.                                                                 *)
(***************************************************************************)
NextSealing ==
    \/ \E data \in {EntryMail, EntryBank}, masterPw \in CipherSecrets : SealEntry(data, masterPw)
    \/ ConfigureMasterSecret(SecretA)
    \/ Login(SecretA)
    \/ Tick

SpecSealing == Init /\ [][NextSealing]_vars

(***************************************************************************)
(* The second DatabaseStorage class of the repository, over the table      *)
(* passwords: no route calls it, so its operations are taken by a caller   *)
(* that holds the class.                                                   *)
(***************************************************************************)
PasswordIds == {<<"1">>, <<"2">>}

PasswordInputs == {SecretA, <<"x", "\\", "y">>}

\* INSERT INTO passwords (id, password) VALUES ($1, $2)
SavePassword(id, password) ==
    /\ passwords' = passwords \cup {[id |-> id, password |-> password]}
    /\ resp' = Reply("savePassword", id, password, Undefined, 0, NoError, NoOut)
    /\ console' = {}
    /\ UNCHANGED <<masterPassword, sessions, passwordEntries, now, rnd, issued>>
    /\ UNCHANGED timers
    /\ UNCHANGED inflight

\* SELECT password FROM passwords WHERE id = $1; rows[0]?.password || null,
\* null shown as the empty string
GetPassword(id) ==
    /\ \E found \in IF \E p \in passwords : p.id = id
                    THEN {p.password : p \in {x \in passwords : x.id = id}}
                    ELSE {EmptyString} :
          resp' = Reply("getPassword", id, found, Undefined, 0, NoError, NoOut)
    /\ console' = {}
    /\ UNCHANGED <<masterPassword, sessions, passwordEntries, passwords, now, rnd, issued>>
    /\ UNCHANGED timers
    /\ UNCHANGED inflight

\* DELETE FROM passwords WHERE id = $1
DeletePassword(id) ==
    /\ passwords' = {p \in passwords : p.id # id}
    /\ resp' = Reply("deletePassword", id, <<>>, Undefined, 0, NoError, NoOut)
    /\ console' = {}
    /\ UNCHANGED <<masterPassword, sessions, passwordEntries, now, rnd, issued>>
    /\ UNCHANGED timers
    /\ UNCHANGED inflight

NextPasswords ==
    \/ \E id \in PasswordIds, password \in PasswordInputs : SavePassword(id, password)
    \/ \E id \in PasswordIds : GetPassword(id)
    \/ \E id \in PasswordIds : DeletePassword(id)
    \/ ConfigureMasterSecret(SecretA)
    \/ Login(SecretA)
    \/ SealEntry(EntryBank, SecretA)

SpecPasswords == Init /\ [][NextPasswords]_vars

(***************************************************************************)
(* The operations that write entry rows, over a database that may already *)
(* hold rows, with entries also made by the sealing step of                *)
(* createPasswordEntry.                                                    *)
(***************************************************************************)
NextEntries ==
    \/ SealEntry(EntryMail, SecretA)
    \/ Login(SecretA)
    \/ \E t \in TokenInputs : CreateEntry(t, EntryMail)
    \/ \E t \in TokenInputs : DeleteAllEntries(t)
    \/ AdminStats
    \/ SweepTimer
    \/ Tick

SpecEntries == InitSeeded /\ [][NextEntries]_vars

(***************************************************************************)
(* Hashing and verification on their own, with secrets of any length.      *)
(***************************************************************************)
\* verifyMasterPassword applied to a password and the stored hash
VerifySecret(inputPassword) ==
    /\ \E rec \in masterPassword :
          resp' = Reply("verify", <<>>, inputPassword, Undefined, 0, NoError,
                        [NoOut EXCEPT !.flag = verifyMasterPassword(inputPassword,
                                                                    rec.hashedPassword)])
    /\ console' = {}
    /\ UNCHANGED <<masterPassword, sessions, passwordEntries, passwords, now, rnd, issued>>
    /\ UNCHANGED timers
    /\ UNCHANGED inflight

NextHash ==
    \/ \E secret \in HashInputs : ConfigureMasterSecret(secret)
    \/ \E secret \in HashInputs : VerifySecret(secret)
    \/ \E secret \in HashInputs : Login(secret)
    \/ Tick

SpecHash == Init /\ [][NextHash]_vars

(***************************************************************************)
(* The server with a database that may reject the statements of the        *)
(* background sweep.                                                       *)
(***************************************************************************)
NextFaults ==
    \/ \E purgeFails, sweepFails \in BOOLEAN : SweepTimerRun(purgeFails, sweepFails)
    \/ Login(SecretA)
    \/ \E t \in TokenInputs : Logout(t)
    \/ \E t \in TokenInputs : ListEntries(t)
    \/ \E t \in TokenInputs : DeleteAllEntries(t)
    \/ Tick

SpecFaults == InitSeeded /\ [][NextFaults]_vars

(***************************************************************************)
(* Requests served statement by statement.  A handler runs up to an await  *)
(* of a database statement, and other handlers run before it resumes; a    *)
(* request in flight is kept with the statement it is to run next.         *)
(***************************************************************************)
Call(slot, op, tok, sec, entry, pc) ==
    [slot |-> slot, op |-> op, tok |-> tok, sec |-> sec, entry |-> entry, pc |-> pc]

FreeSlots == (1..MaxInflight) \ {c.slot : c \in inflight}

\* the lowest free slot
FreeSlot == CHOOSE n \in FreeSlots : \A k \in FreeSlots : n <= k

\* POST /api/master-password/create: the request is received and validated
ConfigureBegin(secret) ==
    /\ FreeSlots # {}
    /\ Len(secret) >= MASTER_MIN_LEN
    /\ inflight' = inflight \cup {Call(FreeSlot, "configure", <<>>, secret, Undefined, "exists")}
    /\ resp' = Idle
    /\ console' = {}
    /\ UNCHANGED <<masterPassword, sessions, passwordEntries, passwords, now, rnd, issued, timers>>

\* await checkMasterPasswordExists(): the select of the route
ConfigureExists(c) ==
    /\ c.op = "configure" /\ c.pc = "exists"
    /\ \E existing \in getMasterPassword :
          IF checkMasterPasswordExists(existing)
          THEN /\ inflight' = inflight \ {c}
               /\ resp' = Reply("configure", <<>>, c.sec, Undefined, 409, NoError, NoOut)
          ELSE /\ inflight' = (inflight \ {c}) \cup {[c EXCEPT !.pc = "setup"]}
               /\ resp' = Idle
    /\ console' = {}
    /\ timers' = NewStorage(1)
    /\ UNCHANGED <<masterPassword, sessions, passwordEntries, passwords, now, rnd, issued>>

\* setupMasterPassword: await storage.getMasterPassword(), then the hashing
ConfigureSetup(c) ==
    /\ c.op = "configure" /\ c.pc = "setup"
    /\ \E existing \in getMasterPassword :
          IF existing # Undefined
          THEN /\ inflight' = inflight \ {c}
               /\ resp' = Reply("configure", <<>>, c.sec, Undefined, 500, MsgAlreadyExists, NoOut)
          ELSE /\ inflight' = (inflight \ {c}) \cup {[c EXCEPT !.pc = "insert"]}
               /\ resp' = Idle
    /\ console' = CatchLog(<<"Error", "creating", "master", "password:">>, resp')
    /\ timers' = NewStorage(1)
    /\ UNCHANGED <<masterPassword, sessions, passwordEntries, passwords, now, rnd, issued>>

\* setupMasterPassword: await storage.createMasterPassword(...), the insert,
\* and the 201 of the route
ConfigureInsert(c) ==
    /\ c.op = "configure" /\ c.pc = "insert"
    /\ masterPassword' = masterPassword
          \cup {createMasterPassword(hashMasterPassword(c.sec, rnd), rnd + 1)}
    /\ rnd' = rnd + 2
    /\ inflight' = inflight \ {c}
    /\ resp' = Reply("configure", <<>>, c.sec, Undefined, 201, NoError, NoOut)
    /\ console' = {}
    /\ UNCHANGED <<sessions, passwordEntries, passwords, now, issued, timers>>

NextSetup ==
    \/ \E secret \in {SecretA, SecretB} : ConfigureBegin(secret)
    \/ \E c \in inflight : ConfigureExists(c)
    \/ \E c \in inflight : ConfigureSetup(c)
    \/ \E c \in inflight : ConfigureInsert(c)
    \/ MasterPasswordExists
    \/ \E secret \in {SecretA, SecretB} : Login(secret)
    \/ Tick

SpecSetup == Init /\ [][NextSetup]_vars

(***************************************************************************)
(* The session-checked entry routes, statement by statement, next to       *)
(* login, logout and the two statements of the background sweep.           *)
(***************************************************************************)
EntryOps == {"createEntry", "listEntries", "deleteAllEntries"}

\* the label of the console.error in the catch block of a route
RouteLabel(op) ==
    CASE op = "createEntry" -> <<"Error", "creating", "password", "entry:">>
      [] op = "listEntries" -> <<"Error", "retrieving", "password", "entries:">>
      [] op = "deleteAllEntries" -> <<"Error", "deleting", "password", "entries:">>

\* the request is received and validated; the storage method is entered
CallBegin(op, sessionToken, entry) ==
    /\ FreeSlots # {}
    /\ Len(sessionToken) >= 1
    /\ IF op = "createEntry" THEN ValidEntry(entry) ELSE entry = Undefined
    /\ inflight' = inflight \cup {Call(FreeSlot, op, sessionToken, <<>>, entry, "verify")}
    /\ resp' = Idle
    /\ console' = {}
    /\ UNCHANGED <<masterPassword, sessions, passwordEntries, passwords, now, rnd, issued, timers>>

\* const isAuthenticated = await this.verifySession(sessionToken)
CallVerify(c) ==
    /\ c.op \in EntryOps /\ c.pc = "verify"
    /\ IF verifySession(c.tok)
       THEN /\ inflight' = (inflight \ {c})
                  \cup {[c EXCEPT !.pc = IF c.op = "deleteAllEntries" THEN "write" ELSE "recover"]}
            /\ resp' = Idle
       ELSE /\ inflight' = inflight \ {c}
            /\ resp' = Reply(c.op, c.tok, <<>>, c.entry, CatchStatus(MsgInvalidSessionDenied),
                             MsgInvalidSessionDenied, NoOut)
    /\ console' = CatchLog(RouteLabel(c.op), resp')
    /\ UNCHANGED <<masterPassword, sessions, passwordEntries, passwords, now, rnd, issued, timers>>

\* const masterPassword = await this.getMasterPasswordFromSession(sessionToken)
CallRecover(c) ==
    /\ c.op \in {"createEntry", "listEntries"} /\ c.pc = "recover"
    /\ \E m \in getMasterPasswordFromSession(c.tok) :
          IF m.ok
          THEN /\ inflight' = (inflight \ {c}) \cup {[c EXCEPT !.pc = "write", !.sec = m.val]}
               /\ resp' = Idle
          ELSE /\ inflight' = inflight \ {c}
               /\ resp' = Reply(c.op, c.tok, <<>>, c.entry, CatchStatus(m.err), m.err, NoOut)
    /\ console' = CatchLog(RouteLabel(c.op), resp')
    /\ UNCHANGED <<masterPassword, sessions, passwordEntries, passwords, now, rnd, issued, timers>>

\* the last statement of the storage method (the insert, the select of the
\* entries, the update) and the response of the route
CallWrite(c) ==
    /\ c.op \in EntryOps /\ c.pc = "write"
    /\ inflight' = inflight \ {c}
    /\ CASE c.op = "deleteAllEntries" ->
               /\ passwordEntries' = SoftDeleted
               /\ resp' = Reply(c.op, c.tok, <<>>, Undefined, 200, NoError, NoOut)
               /\ console' = {}
               /\ UNCHANGED rnd
         [] c.op = "createEntry" ->
               /\ passwordEntries' = passwordEntries \cup {NewEntry(c.entry, c.sec, rnd)}
               /\ rnd' = rnd + 3
               /\ resp' = Reply(c.op, c.tok, <<>>, c.entry, 201, NoError,
                                [NoOut EXCEPT !.expiresAt = now + ENTRY_LIFETIME])
               /\ console' = {}
         [] c.op = "listEntries" ->
               /\ \E q \in OrderByCreatedAtDesc(ActiveEntries) :
                     resp' = Reply(c.op, c.tok, <<>>, Undefined, 200, NoError,
                                   [NoOut EXCEPT !.entries = DecryptEntries(q, c.sec)])
               /\ console' = {<<"Failed", "to", "decrypt", "entry">> \o e.id \o <<":">>
                                 \o decryptPasswordEntry([encryptedData |-> e.encryptedData,
                                        iv |-> e.iv, authTag |-> e.authTag, salt |-> e.salt],
                                        c.sec).err :
                              e \in {x \in ActiveEntries :
                                        ~decryptPasswordEntry([encryptedData |-> x.encryptedData,
                                            iv |-> x.iv, authTag |-> x.authTag, salt |-> x.salt],
                                            c.sec).ok}}
               /\ UNCHANGED <<passwordEntries, rnd>>
    /\ UNCHANGED <<masterPassword, sessions, passwords, now, issued, timers>>

\* the delete statement of deleteExpiredEntries, started by the timer
PurgeStatement ==
    /\ timers >= 1
    /\ passwordEntries' = deleteExpiredEntries
    /\ resp' = Reply("purge", <<>>, <<>>, Undefined, 0, NoError,
                     [NoOut EXCEPT !.count = Cardinality(ExpiredEntries)])
    /\ console' = DeletedLog(Cardinality(ExpiredEntries), <<"password", "entries">>)
    /\ UNCHANGED <<masterPassword, sessions, passwords, now, rnd, issued, timers, inflight>>

\* the delete statement of cleanupExpiredSessions, started by the timer
SweepStatement ==
    /\ timers >= 1
    /\ sessions' = cleanupExpiredSessions
    /\ resp' = Reply("sweepSessions", <<>>, <<>>, Undefined, 0, NoError,
                     [NoOut EXCEPT !.sessionCount = Cardinality(ExpiredSessions)])
    /\ console' = DeletedLog(Cardinality(ExpiredSessions), <<"sessions">>)
    /\ UNCHANGED <<masterPassword, passwordEntries, passwords, now, rnd, issued, timers, inflight>>

NextSteps ==
    \/ \E op \in EntryOps, t \in issued :
          CallBegin(op, t, IF op = "createEntry" THEN EntryMail ELSE Undefined)
    \/ \E c \in inflight : CallVerify(c)
    \/ \E c \in inflight : CallRecover(c)
    \/ \E c \in inflight : CallWrite(c)
    \/ Login(SecretA)
    \/ \E t \in issued : Logout(t)
    \/ Tick

SpecSteps == InitSeeded /\ [][NextSteps]_vars

\* the reading statements of the routes against the statements of the sweep
NextSweeps ==
    \/ \E op \in {"listEntries", "deleteAllEntries"}, t \in issued : CallBegin(op, t, Undefined)
    \/ \E c \in inflight : CallVerify(c)
    \/ \E c \in inflight : CallRecover(c)
    \/ \E c \in inflight : CallWrite(c)
    \/ Login(SecretA)
    \/ PurgeStatement
    \/ SweepStatement
    \/ Tick

SpecSweeps == InitSeeded /\ [][NextSweeps]_vars

(***************************************************************************)
(* The session operations alone, on the seeded store.                      *)
(***************************************************************************)
NextSessions ==
    \/ \E secret \in {SecretA, SecretB} : Login(secret)
    \/ \E t \in TokenInputs : Logout(t)
    \/ \E t \in TokenInputs : VerifySession(t)
    \/ SweepTimer
    \/ Tick

SpecSessions == InitSeeded /\ [][NextSessions]_vars

(***************************************************************************)
(* The interval timer keeps firing: a run of the sweep that would change   *)
(* the store is not postponed for ever, whatever requests arrive.          *)
(***************************************************************************)
NextFair ==
    \/ Login(SecretA)
    \/ \E t \in issued : Logout(t)
    \/ \E t \in issued : DeleteAllEntries(t)
    \/ SweepTimer
    \/ Tick

SpecFair == InitSeeded /\ [][NextFair]_vars /\ WF_vars(SweepTimer)

(***************************************************************************)
(* Properties.                                                             *)
(***************************************************************************)
ReachedStorage(r) == r.status # 400

\* the plaintext a stored bcrypt hash was computed from
ConfiguredSecrets == {m.hashedPassword.password : m \in masterPassword}

\* C1: right after login(S) answered with a token, recovering the secret of
\* that (active, unexpired) session with the token returns exactly S.
C1_RecoverReturnsLoginSecret ==
    (resp.op = "login" /\ resp.status = 200)
        => getMasterPasswordFromSession(resp.out.token) = {Ok(resp.sec)}

\* C2: createEntry with a valid session and a well-formed entry succeeds, and
\* a listEntries that directly follows it, with that entry the only row,
\* returns exactly that entry.
C2_CreateThenListReturnsEntry ==
    [][/\ (/\ resp'.op = "createEntry"
           /\ ReachedStorage(resp')
           /\ verifySession(resp'.tok)) => resp'.status = 201
       /\ (/\ resp.op = "createEntry"
           /\ resp.status = 201
           /\ Cardinality(passwordEntries) = 1
           /\ resp'.op = "listEntries"
           /\ resp'.tok = resp.tok) => (resp'.status = 200 /\ resp'.out.entries = <<resp.entry>>)]_vars

\* the values an attacker or a caller can offer as the key material of a session
KeyCandidates == issued \cup SecretInputs \cup {BogusToken}

\* C3: the encrypted master secret of every stored session opens under the key
\* derived from a value t and the session salt exactly when t is the session's
\* own token (so not under the master secret).
C3_SessionKeyIsDerivedFromToken ==
    \A s \in sessions : \A t \in KeyCandidates :
        decryptMasterPasswordFromSession(s.encryptedMasterPassword, s.sessionSalt, t).ok
            <=> (t = s.sessionToken)

\* C4: verifySession(token) answers true exactly when a session row with that
\* token is active and expires strictly after now, and it changes no table.
C4_VerifySessionIffActiveUnexpired ==
    [][resp'.op = "verifySession" =>
          /\ resp'.out.flag = (\E s \in sessions : /\ s.sessionToken = resp'.tok
                                                   /\ s.isActive = TRUE
                                                   /\ now < s.expiresAt)
          /\ store' = store]_vars

C4_Witness ==
    /\ resp.op = "verifySession"
    /\ resp.out.flag = TRUE
    /\ \E s \in sessions : s.sessionToken = resp.tok /\ s.isActive /\ now < s.expiresAt

\* C5: createEntry, listEntries and deleteAllEntries with a token that does not
\* verify fail with the invalid-session error (401) and change no session row
\* and no entry row.
C5_InvalidTokenRejectedUntouched ==
    [][(/\ resp'.op \in {"createEntry", "listEntries", "deleteAllEntries"}
        /\ ~verifySession(resp'.tok)) =>
          /\ ReachedStorage(resp') => (resp'.err = MsgInvalidSessionDenied /\ resp'.status = 401)
          /\ resp'.status \notin {200, 201}
          /\ sessions' = sessions
          /\ passwordEntries' = passwordEntries]_vars

C5_Witness ==
    /\ resp.op = "deleteAllEntries"
    /\ resp.status = 401
    /\ \E s \in sessions : s.sessionToken = resp.tok /\ ~s.isActive /\ now < s.expiresAt
    /\ \E e \in passwordEntries : ~e.isDeleted

\* C6: a login whose secret does not verify against the stored master secret,
\* or with no master secret stored, fails with the invalid-master-password
\* error, returns no token and adds no session row.
C6_BadLoginCreatesNoSession ==
    [][(/\ resp'.op = "login"
        /\ ReachedStorage(resp')
        /\ \/ masterPassword = {}
           \/ \A m \in masterPassword : ~verifyMasterPassword(resp'.sec, m.hashedPassword)) =>
          /\ resp'.err = MsgInvalidMasterPassword
          /\ resp'.status # 200
          /\ resp'.out.token = <<>>
          /\ sessions' = sessions
          /\ issued' = issued]_vars

C6_Witness ==
    /\ resp.op = "login"
    /\ resp.err = MsgInvalidMasterPassword
    /\ masterPassword # {}
    /\ resp.sec \notin ConfiguredSecrets

\* C7: configureMasterSecret with a master secret already stored fails with the
\* already-exists answer (409) and leaves the row unchanged; the table never
\* holds more than one row and a stored row is never replaced.
C7_ConfigureIsSingleUse ==
    [][/\ (/\ resp'.op = "configure"
           /\ ReachedStorage(resp')
           /\ masterPassword # {}) => (resp'.status = 409 /\ masterPassword' = masterPassword)
       /\ Cardinality(masterPassword') <= 1
       /\ masterPassword # {} => masterPassword' = masterPassword]_vars

C7_Witness ==
    /\ resp.op = "configure"
    /\ resp.status = 409
    /\ Cardinality(masterPassword) = 1
    /\ resp.sec \notin ConfiguredSecrets

FourHoursMs == 4 * 60 * 60 * 1000

\* C8: a session row is created with expiresAt four hours after its creation
\* time, no step changes createdAt or expiresAt of a stored row, and for a
\* row that was not logged out verifySession is true before expiresAt and
\* false from expiresAt on.
C8_SessionLifetimeFourHours ==
    [][/\ \A s \in sessions' :
             (\A o \in sessions : o.sessionToken # s.sessionToken) =>
                 /\ s.createdAt = now
                 /\ (s.expiresAt - s.createdAt) * TIME_UNIT_MS = FourHoursMs
       /\ \A o \in sessions : \A s \in sessions' :
             o.sessionToken = s.sessionToken =>
                 (s.expiresAt = o.expiresAt /\ s.createdAt = o.createdAt)
       /\ resp'.op = "verifySession" =>
             \A s \in sessions :
                 (s.sessionToken = resp'.tok /\ s.isActive) =>
                     resp'.out.flag = (now * TIME_UNIT_MS < s.createdAt * TIME_UNIT_MS + FourHoursMs)]_vars

C8_Witness ==
    /\ resp.op = "verifySession"
    /\ resp.out.flag = FALSE
    /\ \E s \in sessions : s.sessionToken = resp.tok /\ s.isActive /\ s.expiresAt = now

\* C9: a listEntries with a valid session that directly follows a successful
\* deleteAllEntries succeeds and returns the empty sequence.
C9_ListAfterDeleteAllIsEmpty ==
    [][(/\ resp.op = "deleteAllEntries"
        /\ resp.status = 200
        /\ resp'.op = "listEntries"
        /\ ReachedStorage(resp')
        /\ verifySession(resp'.tok)) => (resp'.status = 200 /\ resp'.out.entries = <<>>)]_vars

\* C10: listEntries with a valid session succeeds and returns, newest first,
\* the payloads of the rows that are not deleted, not expired and open under
\* the master secret.
C10_ListReturnsActiveNewestFirst ==
    [][(/\ resp'.op = "listEntries"
        /\ ReachedStorage(resp')
        /\ verifySession(resp'.tok)) =>
          /\ resp'.status = 200
          /\ \E secret \in ConfiguredSecrets :
                \E q \in OrderByCreatedAtDesc({e \in passwordEntries :
                                                  ~e.isDeleted /\ now < e.expiresAt}) :
                    resp'.out.entries = DecryptEntries(q, secret)]_vars

\* the envelope of a row
Envelope(e) == [encryptedData |-> e.encryptedData, salt |-> e.salt, iv |-> e.iv,
                authTag |-> e.authTag]

Opens(e, secret) == decryptPasswordEntry(Envelope(e), secret).ok

\* the payloads of the rows of q that open under secret, in the order of q
OpenedInOrder(q, secret) ==
    LET good == SelectSeq(q, LAMBDA e : Opens(e, secret))
    IN  [i \in DOMAIN good |->
            LET d == decryptPasswordEntry(Envelope(good[i]), secret).val
            IN  PasswordEntryData(GetProp(d, <<"title">>).v, GetProp(d, <<"fields">>).v)]

\* C11: when a selected envelope fails to open, listEntries with a valid
\* session still succeeds, returns the payloads of the other selected
\* envelopes in their order, and leaves every row as it was.
C11_ListSkipsFailingEnvelope ==
    [][(/\ resp'.op = "listEntries"
        /\ ReachedStorage(resp')
        /\ verifySession(resp'.tok)
        /\ \E secret \in ConfiguredSecrets, e \in ActiveEntries : ~Opens(e, secret)) =>
          /\ resp'.status = 200
          /\ \E secret \in ConfiguredSecrets, q \in OrderByCreatedAtDesc(ActiveEntries) :
                resp'.out.entries = OpenedInOrder(q, secret)
          /\ passwordEntries' = passwordEntries]_vars

\* C12: a sweep removes exactly the sessions and exactly the entries with
\* expiresAt <= now, whatever their isActive and isDeleted flags, reports how
\* many of each it removed, and leaves the rows with expiresAt > now as they
\* were; the purge run by the stats route does the same for the entries.
C12_SweepRemovesExactlyExpired ==
    [][/\ (resp'.op = "sweep" =>
             /\ sessions' = {s \in sessions : s.expiresAt > now}
             /\ passwordEntries' = {e \in passwordEntries : e.expiresAt > now}
             /\ resp'.out.sessionCount = Cardinality(sessions) - Cardinality(sessions')
             /\ resp'.out.count = Cardinality(passwordEntries) - Cardinality(passwordEntries'))
       /\ (resp'.op = "adminStats" =>
             /\ passwordEntries' = {e \in passwordEntries : e.expiresAt > now}
             /\ resp'.out.count = Cardinality(passwordEntries) - Cardinality(passwordEntries'))]_vars

\* a sweep has just removed at least one session and one entry and kept others
C12_Witness ==
    /\ resp.op = "sweep"
    /\ resp.out.sessionCount >= 1
    /\ resp.out.count >= 1
    /\ sessions # {}
    /\ passwordEntries # {}

\* C13: invalidate(token) clears isActive on the session with that token and
\* touches nothing else; repeating it changes nothing; for a token no row
\* carries (never issued, or swept) it succeeds and changes nothing.
C13_InvalidateClearsActiveIdempotent ==
    [][(resp'.op = "logout" /\ ReachedStorage(resp')) =>
          /\ resp'.status = 200
          /\ \A s \in sessions :
                IF s.sessionToken = resp'.tok
                THEN [s EXCEPT !.isActive = FALSE] \in sessions'
                ELSE s \in sessions'
          /\ Cardinality(sessions') = Cardinality(sessions)
          /\ UNCHANGED <<masterPassword, passwordEntries>>
          /\ (resp.op = "logout" /\ resp.status = 200 /\ resp.tok = resp'.tok)
                => sessions' = sessions
          /\ (\A s \in sessions : s.sessionToken # resp'.tok) => sessions' = sessions]_vars

\* a logout of an issued token has just made its session inactive
C13_Witness ==
    /\ resp.op = "logout"
    /\ resp.status = 200
    /\ \E s \in sessions : s.sessionToken = resp.tok /\ ~s.isActive

\* C14 (as stated): a successful deleteAllEntries sets isDeleted on the rows
\* that are not deleted and not yet expired, and leaves expired and
\* already deleted rows as they were.
C14_SoftDeleteSparesExpired ==
    [][(resp'.op = "deleteAllEntries" /\ resp'.status = 200) =>
          /\ \A e \in passwordEntries :
                IF ~e.isDeleted /\ e.expiresAt > now
                THEN [e EXCEPT !.isDeleted = TRUE] \in passwordEntries'
                ELSE e \in passwordEntries'
          /\ Cardinality(passwordEntries') = Cardinality(passwordEntries)]_vars

\* C14 (amended): a successful deleteAllEntries sets isDeleted on every row
\* that is not deleted, expired or not, changes no other column, and leaves
\* already deleted rows as they were.
C14_SoftDeleteMarksEveryUndeleted ==
    [][(resp'.op = "deleteAllEntries" /\ resp'.status = 200) =>
          /\ \A e \in passwordEntries :
                IF ~e.isDeleted
                THEN [e EXCEPT !.isDeleted = TRUE] \in passwordEntries'
                ELSE e \in passwordEntries'
          /\ Cardinality(passwordEntries') = Cardinality(passwordEntries)]_vars

\* a deleteAllEntries has just succeeded on a table holding a row that is
\* past its expiry and not swept, next to a row that is not expired
C14_Witness ==
    /\ resp.op = "deleteAllEntries"
    /\ resp.status = 200
    /\ \E e \in passwordEntries : e.isDeleted /\ e.expiresAt <= now
    /\ \E e \in passwordEntries : e.isDeleted /\ e.expiresAt > now

\* row e holds the envelope encryptPasswordEntry made of data under secret
Seals(e, data, secret) ==
    \E k \in 0..rnd : e.salt = generateSalt(k) /\ Envelope(e) = encryptPasswordEntry(data, secret, k)

\* the shape of DecryptedData: a string title and an array of fields, each
\* an object with a string name, a string value and a boolean isPassword
IsDecryptedData(x) ==
    /\ x.t = "obj"
    /\ GetProp(x, <<"title">>).t = "str"
    /\ GetProp(x, <<"fields">>).t = "arr"
    /\ \A i \in DOMAIN GetProp(x, <<"fields">>).v :
          LET f == GetProp(x, <<"fields">>).v[i]
          IN  /\ f.t = "obj"
              /\ GetProp(f, <<"name">>).t = "str"
              /\ GetProp(f, <<"value">>).t = "str"
              /\ GetProp(f, <<"isPassword">>).t = "bool"

\* C15: opening, under secret S, the envelope that sealing a payload P of the
\* expected shape under S produced returns a payload equal to P.
C15_OpenOfSealReturnsPayload ==
    [][resp'.op = "open" =>
          \A e \in passwordEntries, data \in PayloadInputs :
              (e.id = resp'.tok /\ IsDecryptedData(data) /\ Seals(e, data, resp'.sec))
                  => (resp'.err = NoError /\ resp'.entry = data)]_vars

\* an envelope holding a payload with a quote and a backslash has just been
\* opened under the secret it was sealed with
C15_Witness ==
    /\ resp.op = "open"
    /\ \E e \in passwordEntries : e.id = resp.tok /\ Seals(e, EntryBank, resp.sec)

\* the messages decryptPasswordEntry fails with when the decrypted bytes do
\* not parse or are not of the expected shape
FormatErrors == {DecryptionFailed(MsgBadStructure), DecryptionFailed(MsgJsonSyntax)}

C17_OpenChecksFieldRecords ==
    [][resp'.op = "open" =>
          /\ resp'.err = NoError => IsDecryptedData(resp'.entry)
          /\ \A e \in passwordEntries, data \in PayloadInputs :
                (e.id = resp'.tok /\ Seals(e, data, resp'.sec) /\ ~IsDecryptedData(data))
                    => resp'.err = DecryptionFailed(MsgBadStructure)]_vars

\* C18: no two entry rows share a salt or an iv, no two session rows share a
\* sessionSalt or a sessionToken, and two rows sealing the same plaintext
\* under the same secret differ in salt, iv and authTag.
C18_SaltsIvsTokensUnique ==
    /\ \A e1, e2 \in passwordEntries :
          e1 # e2 => /\ e1.salt # e2.salt
                     /\ e1.iv # e2.iv
                     /\ (/\ e1.encryptedData.plaintext = e2.encryptedData.plaintext
                         /\ e1.encryptedData.key.password = e2.encryptedData.key.password)
                            => e1.authTag # e2.authTag
    /\ \A s1, s2 \in sessions :
          s1 # s2 => /\ s1.sessionSalt # s2.sessionSalt
                     /\ s1.sessionToken # s2.sessionToken

\* two rows seal the same plaintext under the same secret, and two sessions
\* of the same secret exist
C18_Witness ==
    /\ \E e1, e2 \in passwordEntries :
          /\ e1 # e2
          /\ e1.encryptedData.plaintext = e2.encryptedData.plaintext
          /\ e1.encryptedData.key.password = e2.encryptedData.key.password
    /\ Cardinality(sessions) >= 2

\* the master secrets, and the titles and field values of the payloads
SecretMaterial ==
    {SecretA, SecretB}
        \cup {GetProp(e, <<"title">>).v : e \in EntryInputs}
        \cup UNION {{GetProp(GetProp(e, <<"fields">>).v[i], <<"value">>).v :
                        i \in DOMAIN GetProp(e, <<"fields">>).v} : e \in EntryInputs}

\* the values of the text columns that hold a string as it is
StringColumns ==
    UNION {{m.id, m.salt} : m \in masterPassword}
        \cup UNION {{s.id, s.sessionToken, s.sessionSalt} : s \in sessions}
        \cup UNION {{e.id, e.salt, e.iv} : e \in passwordEntries}
        \cup UNION {{p.id, p.password} : p \in passwords}

\* C19: no persisted column holds secret material in plaintext: the master
\* secret is kept as a bcrypt hash and inside the session's ciphertext,
\* titles and field values inside encryptedData, and every other column
\* holds none of them.
C19_NoPlaintextAtRest ==
    /\ StringColumns \cap SecretMaterial = {}
    /\ \A m \in masterPassword :
          m.hashedPassword = BcryptHash(m.hashedPassword.password, m.hashedPassword.salt)
    /\ \A e \in passwordEntries :
          /\ e.encryptedData = GcmCiphertext(e.encryptedData.key, e.encryptedData.iv,
                                             e.encryptedData.plaintext)
          /\ e.authTag = GcmTag(e.authTag.key, e.authTag.iv, e.authTag.aad, e.authTag.ciphertext)
    /\ \A s \in sessions :
          LET parts == SplitColon(s.encryptedMasterPassword)
          IN  /\ Len(parts) = 3
              /\ \A i \in 1..3 : Len(parts[i]) = 1 /\ parts[i][1].kind = "b64"
              /\ parts[1][1].val = GcmCiphertext(parts[1][1].val.key, parts[1][1].val.iv,
                                                 parts[1][1].val.plaintext)

\* C20: the configured master secret appears in no line written to the
\* console and in nothing a response carries back: not in the error message,
\* not in the token.  (Derived keys are terms of the cipher; console lines,
\* messages and tokens are strings.)
C20_SecretNeverLoggedOrReturned ==
    \A secret \in ConfiguredSecrets :
        /\ \A line \in console : ~Includes(line, secret)
        /\ ~Includes(resp.err, secret)
        /\ ~Includes(resp.out.token, secret)

TwentyFourHoursMs == 24 * 60 * 60 * 1000

\* C21: every entry row has expiresAt twenty-four hours after createdAt; a
\* row that enters the table is stamped with the current time and
\* isDeleted = false; no step changes createdAt or expiresAt of a stored row.
C21_EntryLifetimeTwentyFourHours ==
    [][/\ \A e \in passwordEntries' :
             (e.expiresAt - e.createdAt) * TIME_UNIT_MS = TwentyFourHoursMs
       /\ \A e \in passwordEntries' :
             (\A o \in passwordEntries : o.id # e.id) =>
                 (e.createdAt = now /\ e.isDeleted = FALSE)
       /\ \A o \in passwordEntries : \A e \in passwordEntries' :
             o.id = e.id => (e.createdAt = o.createdAt /\ e.expiresAt = o.expiresAt)]_vars

\* a row made after the clock has advanced is stored next to a row that a
\* bulk deletion has marked
C21_Witness ==
    /\ \E e \in passwordEntries : e.createdAt = now /\ now > 0 /\ ~e.isDeleted
    /\ \E e \in passwordEntries : e.isDeleted

\* C22: verifying a secret against the hash that has just been made of
\* secret S answers true exactly when the secret is S, whatever the lengths.
C22_VerifyIffSameSecret ==
    [][(resp.op = "configure" /\ resp.status = 201 /\ resp'.op = "verify") =>
          (resp'.out.flag <=> resp'.sec = resp.sec)]_vars

\* C23: a stored master password row stays in the table, with the same
\* hashedPassword and salt, through every step.
C23_MasterRecordImmutable ==
    [][\A m \in masterPassword :
          /\ m \in masterPassword'
          /\ \A n \in masterPassword' :
                n.id = m.id => (n.hashedPassword = m.hashedPassword /\ n.salt = m.salt)]_vars

\* with the master password stored, a session was made and logged out, the
\* clock has advanced, and a further create has just been refused
C23_Witness ==
    /\ masterPassword # {}
    /\ \E s \in sessions : ~s.isActive
    /\ now > 0
    /\ resp.op = "configure"
    /\ resp.status = 409

\* C24: a session only moves forward: for a token already handed out, once
\* verifySession is false (logged out or expired) no step makes it true
\* again, a row marked inactive is never marked active, and once its row is
\* gone no step brings a row with that token back.
C24_SessionOnlyMovesForward ==
    [][\A t \in issued :
          /\ ~verifySession(t) => ~verifySession(t)'
          /\ \A s \in sessions : \A n \in sessions' :
                (s.sessionToken = t /\ n.sessionToken = t /\ ~s.isActive) => ~n.isActive
          /\ (\A s \in sessions : s.sessionToken # t)
                => (\A n \in sessions' : n.sessionToken # t)]_vars

\* a sweep has just removed the row of one token, and the row of another
\* token is logged out but not yet expired
C24_Witness ==
    /\ resp.op = "sweep"
    /\ \E t \in issued : \A s \in sessions : s.sessionToken # t
    /\ \E s \in sessions : ~s.isActive /\ s.expiresAt > now

\* C30: a login with a secret other than the stored master secret is
\* answered with the authentication failure status 401, not with the
\* internal error status 500.
C30_WrongSecretLoginIs401 ==
    [][(/\ resp'.op = "login"
        /\ ReachedStorage(resp')
        /\ masterPassword # {}
        /\ resp'.sec \notin ConfiguredSecrets) =>
          (resp'.status = 401 /\ resp'.status # 500)]_vars

\* C26: a run of the sweep callback in which the database rejects a
\* statement writes the rejection to the console, leaves the timer running,
\* and still applies the sweep whose statement was not rejected; no response
\* to a request carries the rejection.
C26_SweepFailureIsContained ==
    [][/\ \A purgeFails, sweepFails \in BOOLEAN :
             SweepTimerRun(purgeFails, sweepFails) =>
                /\ timers' = timers /\ timers' >= 1
                /\ (purgeFails \/ sweepFails) => (<<"Error:">> \o MsgDbError) \in console'
                /\ ~sweepFails => sessions' = {s \in sessions : s.expiresAt > now}
                /\ ~purgeFails => passwordEntries' = {e \in passwordEntries : e.expiresAt > now}
       /\ resp'.op \notin {"sweep", "idle"} => ~Includes(resp'.err, MsgDbError)]_vars

\* a run has just logged the rejection of the entry purge, left an expired
\* entry in the table, and removed an expired session
C26_Witness ==
    /\ resp.op = "sweep"
    /\ (<<"Error:">> \o MsgDbError) \in console
    /\ \E e \in passwordEntries : e.expiresAt <= now
    /\ resp.out.sessionCount >= 1
    /\ timers >= 1

\* C27: however the statements of concurrent create requests interleave, the
\* table master_password never holds more than one row (so at most one of
\* the requests is answered 201).
C27_AtMostOneMasterRecord == Cardinality(masterPassword) <= 1

\* C25: a statement of the background sweep removes no row that a reading
\* statement of a request accepts: the session check and the recovery of the
\* master secret answer the same for every token before and after the session
\* sweep, the listing selects the same entries before and after the entry
\* purge, so a request interleaved with the sweep reads what it would read
\* with the sweep wholly before or wholly after it.
C25_SweepInvisibleToReaders ==
    [][ /\ SweepStatement =>
              /\ \A t \in issued \cup {BogusToken} :
                    /\ verifySession(t)' = verifySession(t)
                    /\ getMasterPasswordFromSession(t)' = getMasterPasswordFromSession(t)
              /\ \A s \in sessions \ sessions' : ~(s.isActive /\ s.expiresAt > now)
        /\ PurgeStatement =>
              /\ ActiveEntries' = ActiveEntries
              /\ (passwordEntries \ passwordEntries') \cap ActiveEntries = {}
      ]_vars

\* the session sweep removed the row of a request that has passed its session
\* check and has not yet recovered the master secret
C25_Witness ==
    /\ resp.op = "sweepSessions"
    /\ resp.out.sessionCount > 0
    /\ \E c \in inflight :
          /\ c.pc = "recover"
          /\ ~ \E s \in sessions : s.sessionToken = c.tok

\* C28: once logout has made the session of a token inactive, the last
\* statement of a createEntry or deleteAllEntries request carrying that token
\* changes no entry row.
C28_NoEntryWriteAfterLogout ==
    [][ \A c \in inflight :
           ( /\ CallWrite(c)
             /\ c.op \in {"createEntry", "deleteAllEntries"}
             /\ \E s \in sessions : s.sessionToken = c.tok /\ ~s.isActive )
           => passwordEntries' = passwordEntries
      ]_vars

\* C29: a createEntry or listEntries request whose session is missing,
\* expired or inactive at the statement that fails, the session check or the
\* recovery of the master secret, is answered 401.
C29_InvalidSessionIs401 ==
    [][ \A c \in inflight :
           ( /\ CallVerify(c) \/ CallRecover(c)
             /\ c.op \in {"createEntry", "listEntries"}
             /\ ~verifySession(c.tok) )
           => resp'.status = 401
      ]_vars

\* C31: an entry row leaves the store only in a step that runs
\* deleteExpiredEntries (the timer or the admin stats request) and only if
\* its expiresAt <= now; in every step an unexpired row, soft-deleted or not,
\* stays in the store with its ciphertext, iv, tag, salt and timestamps
\* unchanged.
C31_EntriesLeaveOnlyByExpiry ==
    [][ \A e \in passwordEntries :
           /\ (~ \E f \in passwordEntries' : f.id = e.id)
                 => (resp'.op \in {"sweep", "adminStats"} /\ e.expiresAt <= now)
           /\ e.expiresAt > now
                 => \E f \in passwordEntries' :
                       /\ f.id = e.id
                       /\ Envelope(f) = Envelope(e)
                       /\ f.createdAt = e.createdAt
                       /\ f.expiresAt = e.expiresAt
      ]_vars

\* the purge of an admin stats request has removed an expired row and kept a
\* soft-deleted row that has not expired
C31_Witness ==
    /\ resp.op = "adminStats"
    /\ resp.out.count > 0
    /\ \E e \in passwordEntries : e.isDeleted /\ e.expiresAt > now

\* C36: a stored entry whose isDeleted is true keeps isDeleted true in every
\* step for as long as it is stored, and is not among the rows the listing
\* selects after the step.
C36_IsDeletedMonotonic ==
    [][ \A e \in passwordEntries :
           e.isDeleted =>
              \A f \in passwordEntries' :
                 f.id = e.id => (f.isDeleted /\ f \notin ActiveEntries')
      ]_vars

\* a row soft-deleted earlier is still marked after a later insert, next to a
\* row the listing selects
C36_Witness ==
    /\ resp.op = "seal"
    /\ \E e \in passwordEntries : e.isDeleted
    /\ ActiveEntries # {}

\* C34: the process has exactly one interval timer running the sweep,
\* whatever requests it has handled.
C34_ExactlyOneSweepTimer == timers = 1

\* C35: a successful login adds one session row and leaves every existing
\* session row and every entry row as it was; a logout with a token changes
\* at most the row carrying that token, adds and removes no row, leaves every
\* entry row as it was, and every other token that passed verifySession
\* before still passes it after.
C35_SessionsIndependent ==
    [][ /\ \A secret \in SecretInputs :
              (Login(secret) /\ resp'.status = 200) =>
                 /\ sessions \subseteq sessions'
                 /\ Cardinality(sessions') = Cardinality(sessions) + 1
                 /\ passwordEntries' = passwordEntries
        /\ \A t \in TokenInputs :
              Logout(t) =>
                 /\ \A s \in sessions : s.sessionToken # t => s \in sessions'
                 /\ Cardinality(sessions') = Cardinality(sessions)
                 /\ \A u \in issued \ {t} : verifySession(u) => verifySession(u)'
                 /\ passwordEntries' = passwordEntries
      ]_vars

\* a logout has made one session inactive while another session is still
\* accepted and the store holds entries
C35_Witness ==
    /\ resp.op = "logout"
    /\ resp.status = 200
    /\ \E s \in sessions : s.sessionToken = resp.tok /\ ~s.isActive
    /\ \E u \in issued \ {resp.tok} : verifySession(u)
    /\ passwordEntries # {}

\* the envelope was sealed under the secret
SealedUnder(e, secret) == e.encryptedData.key.password = secret

\* the bytes of a replacement differ from the bytes of the stored column
\* (salt and iv are base64 texts; the ciphertext and the tag are carried as
\* their bytes)
BytesDiffer(field, value, stored) ==
    IF field \in {"salt", "iv"}
    THEN Base64Decode(value) # Base64Decode(stored)
    ELSE value # stored

C32_ExpiredRowsEventuallyRemoved ==
    []<>( /\ \A e \in passwordEntries : e.expiresAt > now
          /\ \A s \in sessions : s.expiresAt > now )

\* a run of the timer has removed an expired entry and an expired session
\* and has left no expired row in the store
C32_Witness ==
    /\ resp.op = "sweep"
    /\ resp.out.count > 0
    /\ resp.out.sessionCount > 0
    /\ \A e \in passwordEntries : e.expiresAt > now
    /\ \A s \in sessions : s.expiresAt > now

====
